---- MODULE Spec2Model ----
(***************************************************************************)
(* A model of the FTC DSL Python-to-Java transpiler                        *)
(* (src/src/ftc_transpiler.py).  The entry point                           *)
(* transpile_ftc_python_to_java parses the input, walks the tree with the  *)
(* FTCTranspiler visitor and assembles the Java text, or returns the       *)
(* fallback block when anything raises.  The recursion of the visitor is   *)
(* an explicit stack of pending visits: each action is one handler (or the *)
(* part of a handler between two recursive visits).  Text is text: lines   *)
(* and the result are strings built as the f-strings of the code build     *)
(* them.                                                                   *)
(***************************************************************************)
EXTENDS Integers, Sequences, FiniteSets, TLC

VARIABLES python_code, pc, stack, java_code, hardware_components,
          opmode_info, class_name, indent_level, exc, result

vars == <<python_code, pc, stack, java_code, hardware_components,
          opmode_info, class_name, indent_level, exc, result>>

-----------------------------------------------------------------------------
(* Bounds of the input universe.                                           *)

\* longest routine body drawn from the pool of simple statements
MaxBody == 2
\* deepest nesting of if / while statements
MaxDepth == 2
\* most hardware statements in an init_hardware body
MaxHw == 2

-----------------------------------------------------------------------------
(* Python values: the value of an ast.Constant, and None.                  *)

PyStr(s) == [py |-> "str", s |-> s]
PyInt(n) == [py |-> "int", n |-> n]
PyFloat(r) == [py |-> "float", r |-> r]
PyBool(b) == [py |-> "bool", b |-> b]
PyNone == [py |-> "None"]

\* str(value), as the f-strings and str() of the code apply it
Str(v) ==
    CASE v.py = "str" -> v.s
      [] v.py = "int" -> ToString(v.n)
      [] v.py = "float" -> v.r
      [] v.py = "bool" -> IF v.b THEN "True" ELSE "False"
      [] OTHER -> "None"

\* the truth value of a Python value (if direction and ...)
Truthy(v) ==
    CASE v.py = "str" -> v.s # ""
      [] v.py = "int" -> v.n # 0
      [] v.py = "float" -> v.r \notin {"0.0", "-0.0"}
      [] v.py = "bool" -> v.b
      [] OTHER -> FALSE

-----------------------------------------------------------------------------
(* The syntax tree the front end (ast.parse) hands to the visitor.         *)

Constant(v) == [k |-> "Constant", value |-> v]
Name(id) == [k |-> "Name", id |-> id]
Attribute(value, attr) == [k |-> "Attribute", value |-> value, attr |-> attr]
UnaryOp(op, operand) == [k |-> "UnaryOp", op |-> op, operand |-> operand]
BinOp(left, op, right) == [k |-> "BinOp", left |-> left, op |-> op, right |-> right]
Compare(left, op, right) ==
    [k |-> "Compare", left |-> left, ops |-> <<op>>, comparators |-> <<right>>]
Call(func, args) == [k |-> "Call", func |-> func, args |-> args]

Assign(targets, value) == [k |-> "Assign", targets |-> targets, value |-> value]
Expr(value) == [k |-> "Expr", value |-> value]
If(test, body, orelse) == [k |-> "If", test |-> test, body |-> body, orelse |-> orelse]
While(test, body) == [k |-> "While", test |-> test, body |-> body]
For(target, iter, body) == [k |-> "For", target |-> target, iter |-> iter, body |-> body]
Pass == [k |-> "Pass"]
Return(value) == [k |-> "Return", value |-> value]
FunctionDef(name, args, body) ==
    [k |-> "FunctionDef", name |-> name, args |-> args, body |-> body]
ClassDef(name, decorator_list, body) ==
    [k |-> "ClassDef", name |-> name, decorator_list |-> decorator_list, body |-> body]
Module(body) == [k |-> "Module", body |-> body]

-----------------------------------------------------------------------------
(* Text helpers.                                                           *)

RECURSIVE Repeat(_, _)
Repeat(s, n) == IF n <= 0 THEN "" ELSE s \o Repeat(s, n - 1)

RECURSIVE Join(_, _)
Join(sep, ss) ==
    IF ss = <<>> THEN ""
    ELSE IF Len(ss) = 1 THEN ss[1]
    ELSE ss[1] \o sep \o Join(sep, Tail(ss))

StartsWith(s, p) == Len(s) >= Len(p) /\ SubSeq(s, 1, Len(p)) = p

\* s.count(c) for a one-character c
CountChar(s, c) == Cardinality({i \in 1..Len(s) : SubSeq(s, i, i) = c})

\* s.strip('"')
RECURSIVE StripQuotes(_)
StripQuotes(s) ==
    IF Len(s) > 0 /\ SubSeq(s, 1, 1) = "\""
    THEN StripQuotes(SubSeq(s, 2, Len(s)))
    ELSE IF Len(s) > 0 /\ SubSeq(s, Len(s), Len(s)) = "\""
    THEN StripQuotes(SubSeq(s, 1, Len(s) - 1))
    ELSE s

-----------------------------------------------------------------------------
(* The mapping tables of FTCTranspiler.__init__.                           *)

hardware_types ==
    [motor |-> "DcMotor", servo |-> "Servo", color_sensor |-> "ColorSensor",
     distance_sensor |-> "DistanceSensor", gyro |-> "GyroSensor",
     touch_sensor |-> "TouchSensor", light_sensor |-> "LightSensor",
     imu |-> "IMU"]

motor_directions ==
    [forward |-> "DcMotor.Direction.FORWARD", reverse |-> "DcMotor.Direction.REVERSE"]

motor_modes ==
    [run_using_encoder |-> "DcMotor.RunMode.RUN_USING_ENCODER",
     run_without_encoder |-> "DcMotor.RunMode.RUN_WITHOUT_ENCODER",
     run_to_position |-> "DcMotor.RunMode.RUN_TO_POSITION",
     stop_and_reset_encoder |-> "DcMotor.RunMode.STOP_AND_RESET_ENCODER"]

standard_imports ==
    {"com.qualcomm.robotcore.eventloop.opmode.LinearOpMode",
     "com.qualcomm.robotcore.eventloop.opmode.TeleOp",
     "com.qualcomm.robotcore.eventloop.opmode.Autonomous",
     "com.qualcomm.robotcore.hardware.DcMotor",
     "com.qualcomm.robotcore.hardware.Servo",
     "com.qualcomm.robotcore.hardware.ColorSensor",
     "com.qualcomm.robotcore.hardware.DistanceSensor",
     "com.qualcomm.robotcore.hardware.TouchSensor",
     "com.qualcomm.robotcore.hardware.LightSensor",
     "com.qualcomm.robotcore.hardware.IMU",
     "org.firstinspires.ftc.robotcore.external.navigation.DistanceUnit",
     "org.firstinspires.ftc.robotcore.external.navigation.AngleUnit"}

\* dict.get(key, default) on a table whose keys are strings
Get(table, key, default) == IF key \in DOMAIN table THEN table[key] ELSE default

gamepad_mappings ==
    [a_button |-> "a", b_button |-> "b", x_button |-> "x", y_button |-> "y"]

\* every other key of the table maps to itself, as does a key outside it
convert_gamepad_attr(attr) == Get(gamepad_mappings, attr, attr)

convert_binary_op(op) ==
    CASE op = "Add" -> "+"
      [] op = "Sub" -> "-"
      [] op = "Mult" -> "*"
      [] op = "Div" -> "/"
      [] op = "Lt" -> "<"
      [] op = "Gt" -> ">"
      [] op = "LtE" -> "<="
      [] op = "GtE" -> ">="
      [] op = "Eq" -> "=="
      [] op = "NotEq" -> "!="
      [] OTHER -> "?"

\* get_string_arg returns the constant's value, whatever its type
get_string_arg(call_node, index, default) ==
    IF Len(call_node.args) > index /\ call_node.args[index + 1].k = "Constant"
    THEN call_node.args[index + 1].value
    ELSE default

-----------------------------------------------------------------------------
(* The expression translator.  visit_expression gives the text of an       *)
(* expression; RaisesIndexError tells whether translating it raises        *)
(* (node.args[0] of a call that has no argument), in which case no text is *)
(* produced and the exception leaves the visitor.                          *)

UNKNOWN_EXPRESSION == "/* UNKNOWN EXPRESSION */"
UNKNOWN_CALL == "/* UNKNOWN CALL */"
UNKNOWN_MODE == "/* UNKNOWN MODE */"

\* the receiver methods whose translation reads node.args[0] unguarded
FirstArgMethods == {"set_power", "set_position", "set_target_position"}

RECURSIVE visit_expression(_), visit_call_expression(_), RaisesIndexError(_)

RaisesIndexError(node) ==
    CASE node.k = "UnaryOp" /\ node.op = "USub" -> RaisesIndexError(node.operand)
      [] node.k = "BinOp" -> RaisesIndexError(node.left) \/ RaisesIndexError(node.right)
      [] node.k = "Call" /\ node.func.k = "Attribute" ->
            \/ RaisesIndexError(node.func.value)
            \/ /\ node.func.attr \in FirstArgMethods
               /\ (Len(node.args) = 0 \/ RaisesIndexError(node.args[1]))
            \/ /\ node.func.attr = "set_mode"
               /\ Len(node.args) > 0
               /\ RaisesIndexError(node.args[1])
      [] node.k = "Call" /\ node.func.k = "Name" ->
            \/ /\ node.func.id = "telemetry_add"
               /\ Len(node.args) >= 2
               /\ (RaisesIndexError(node.args[1]) \/ RaisesIndexError(node.args[2]))
            \/ /\ node.func.id = "sleep"
               /\ Len(node.args) > 0
               /\ RaisesIndexError(node.args[1])
      [] OTHER -> FALSE

visit_expression(node) ==
    CASE node.k = "Constant" ->
            IF node.value.py = "str" THEN "\"" \o node.value.s \o "\""
            ELSE Str(node.value)
      [] node.k = "Name" -> node.id
      [] node.k = "Attribute" /\ node.value.k = "Name" ->
            IF node.value.id = "gamepad1"
            THEN "gamepad1." \o convert_gamepad_attr(node.attr)
            ELSE IF node.value.id = "gamepad2"
            THEN "gamepad2." \o convert_gamepad_attr(node.attr)
            ELSE node.value.id \o "." \o node.attr
      [] node.k = "UnaryOp" /\ node.op = "USub" ->
            "-" \o visit_expression(node.operand)
      [] node.k = "BinOp" ->
            visit_expression(node.left) \o " " \o convert_binary_op(node.op)
                \o " " \o visit_expression(node.right)
      [] node.k = "Call" -> visit_call_expression(node)
      [] OTHER -> UNKNOWN_EXPRESSION

\* the text of the first argument; a call without one raises before it is used
FirstArg(node) == IF Len(node.args) = 0 THEN "" ELSE visit_expression(node.args[1])

visit_call_expression(node) ==
    IF node.func.k = "Attribute"
    THEN LET obj == visit_expression(node.func.value)
             method == node.func.attr
         IN CASE method = "set_power" -> obj \o ".setPower(" \o FirstArg(node) \o ")"
              [] method = "set_position" -> obj \o ".setPosition(" \o FirstArg(node) \o ")"
              [] method = "get_distance" -> obj \o ".getDistance(DistanceUnit.CM)"
              [] method = "is_pressed" -> obj \o ".isPressed()"
              [] method = "get_current_position" -> obj \o ".getCurrentPosition()"
              [] method = "set_target_position" ->
                    obj \o ".setTargetPosition(" \o FirstArg(node) \o ")"
              [] method = "set_mode" ->
                    IF Len(node.args) > 0
                       /\ StripQuotes(FirstArg(node)) \in DOMAIN motor_modes
                    THEN obj \o ".setMode(" \o motor_modes[StripQuotes(FirstArg(node))] \o ")"
                    ELSE obj \o ".setMode(" \o UNKNOWN_MODE \o ")"
              [] OTHER -> UNKNOWN_CALL
    ELSE IF node.func.k = "Name" /\ node.func.id = "telemetry_add" /\ Len(node.args) >= 2
    THEN "telemetry.addData(" \o visit_expression(node.args[1]) \o ", "
            \o visit_expression(node.args[2]) \o ")"
    ELSE IF node.func.k = "Name" /\ node.func.id = "sleep" /\ Len(node.args) > 0
    THEN "sleep(" \o visit_expression(node.args[1]) \o ")"
    ELSE UNKNOWN_CALL

-----------------------------------------------------------------------------
(* The emission buffer.                                                    *)

indent(level) == Repeat("    ", level)

add_line(code, level, line) == Append(code, indent(level) \o line)

\* list.insert(-1, x): before the last element (at the front of an empty list)
InsertBeforeLast(code, x) ==
    IF code = <<>> THEN <<x>>
    ELSE SubSeq(code, 1, Len(code) - 1) \o <<x, code[Len(code)]>>

RECURSIVE AddLines(_, _, _)
AddLines(code, level, lines) ==
    IF lines = <<>> THEN code
    ELSE AddLines(add_line(code, level, Head(lines)), level, Tail(lines))

RECURSIVE InsertLines(_, _, _)
InsertLines(code, level, lines) ==
    IF lines = <<>> THEN code
    ELSE InsertLines(InsertBeforeLast(code, indent(level) \o Head(lines)), level, Tail(lines))

-----------------------------------------------------------------------------
(* The component registry (an insertion-ordered dict keyed by name) and    *)
(* the unit metadata.                                                      *)

HardwareComponent(name, type, config_name, direction) ==
    [name |-> name, type |-> type, config_name |-> config_name, direction |-> direction]

OpModeInfo(name, group, type) == [name |-> name, group |-> group, type |-> type]

\* a registry kept as a list: a known name gets a second record
DictSet_Append(components, comp) == Append(components, comp)

\* hardware_components[name] = comp: a known key keeps its place
DictSet(components, comp) ==
    IF \E i \in 1..Len(components) : components[i].name = comp.name
    THEN [i \in 1..Len(components) |->
            IF components[i].name = comp.name THEN comp ELSE components[i]]
    ELSE Append(components, comp)

\* self.X = kind(...) with kind a bare name of the hardware-kind table
IsSelfAttribute(target) ==
    target.k = "Attribute" /\ target.value.k = "Name" /\ target.value.id = "self"

IsNameCall(value) == value.k = "Call" /\ value.func.k = "Name"

RECURSIVE ScanStatements(_, _)
ScanStatements(components, body) ==
    IF body = <<>> THEN components
    ELSE LET stmt == Head(body)
             found == /\ stmt.k = "Assign"
                      /\ Len(stmt.targets) = 1
                      /\ IsSelfAttribute(stmt.targets[1])
                      /\ IsNameCall(stmt.value)
                      /\ stmt.value.func.id \in DOMAIN hardware_types
         IN ScanStatements(
                IF found
                THEN DictSet(components,
                        HardwareComponent(
                            stmt.targets[1].attr,
                            hardware_types[stmt.value.func.id],
                            get_string_arg(stmt.value, 0, PyStr(stmt.targets[1].attr)),
                            get_string_arg(stmt.value, 1, PyNone)))
                ELSE components,
                Tail(body))

scan_hardware_components(components, node) == ScanStatements(components, node.body)

\* the loop of visit_ClassDef over the class body that scans every init_hardware
RECURSIVE ScanClassBody(_, _)
ScanClassBody(components, body) ==
    IF body = <<>> THEN components
    ELSE ScanClassBody(
            IF Head(body).k = "FunctionDef" /\ Head(body).name = "init_hardware"
            THEN scan_hardware_components(components, Head(body))
            ELSE components,
            Tail(body))

\* the decorators taken from the last to the first: the first match is kept
RECURSIVE ProcessDecorators_FirstWins(_, _, _)
ProcessDecorators_FirstWins(info, decorators, name) ==
    IF decorators = <<>> THEN info
    ELSE LET decorator == decorators[Len(decorators)]
             kind == IF decorator.k = "Call" /\ decorator.func.k = "Name"
                        /\ decorator.func.id = "teleop"
                     THEN "TeleOp"
                     ELSE IF decorator.k = "Call" /\ decorator.func.k = "Name"
                             /\ decorator.func.id = "autonomous"
                     THEN "Autonomous"
                     ELSE ""
         IN ProcessDecorators_FirstWins(
                IF kind # ""
                THEN [name |-> get_string_arg(decorator, 0, PyStr(name)),
                      group |-> get_string_arg(decorator, 1, PyStr("Linear Opmode")),
                      type |-> kind]
                ELSE info,
                SubSeq(decorators, 1, Len(decorators) - 1), name)

\* the loop of visit_ClassDef over the decorators: the last match is kept
RECURSIVE ProcessDecorators(_, _, _)
ProcessDecorators(info, decorators, name) ==
    IF decorators = <<>> THEN info
    ELSE LET decorator == Head(decorators)
             kind == IF IsNameCall(decorator) /\ decorator.func.id = "teleop"
                     THEN "TeleOp"
                     ELSE IF IsNameCall(decorator) /\ decorator.func.id = "autonomous"
                     THEN "Autonomous"
                     ELSE ""
         IN ProcessDecorators(
                IF kind # ""
                THEN OpModeInfo(get_string_arg(decorator, 0, PyStr(name)),
                                get_string_arg(decorator, 1, PyStr("Linear Opmode")),
                                kind)
                ELSE info,
                Tail(decorators), name)

\* the field declarations of the registry, in its order
DeclarationLines(components) ==
    <<"// Hardware components">>
    \o [i \in 1..Len(components) |->
            "private " \o components[i].type \o " " \o components[i].name \o " = null;"]
    \o <<"">>

AnnotationLine(info) ==
    "@" \o info.type \o "(name=\"" \o Str(info.name) \o "\", group=\""
        \o Str(info.group) \o "\")"

ClassHeaderLine(name) == "public class " \o name \o " extends LinearOpMode {"

-----------------------------------------------------------------------------
(* The visitor.  The stack holds the visits still to make and the tails of *)
(* the handlers that are waiting for the visits of their bodies.           *)

Frame(op) == [op |-> op]
VisitFrame(node) == [op |-> "visit", node |-> node]
\* the visits of a body taken last statement first
Visits_Reversed(stmts) ==
    [i \in 1..Len(stmts) |-> [op |-> "visit", node |-> stmts[Len(stmts) + 1 - i]]]

Visits(stmts) == [i \in 1..Len(stmts) |-> VisitFrame(stmts[i])]

Top == Head(stack)
Visiting(kinds) ==
    pc = "visit" /\ stack # <<>> /\ Top.op = "visit" /\ Top.node.k \in kinds
Resuming(op) == pc = "visit" /\ stack # <<>> /\ Top.op = op

HandledKinds == {"ClassDef", "FunctionDef", "Assign", "Expr", "If", "While"}

\* an exception leaves the visitor: nothing more is emitted
Raise(message) ==
    /\ pc' = "except"
    /\ exc' = PyStr(message)
    /\ UNCHANGED <<python_code, stack, java_code, hardware_components, opmode_info,
                   class_name, indent_level, result>>

IndexErrorMessage == "list index out of range"

\* the handler goes on: the buffer, the depth and the stack change
Emit(code, level, frames) ==
    /\ java_code' = code
    /\ indent_level' = level
    /\ stack' = frames \o Tail(stack)
    /\ UNCHANGED <<python_code, pc, hardware_components, opmode_info, class_name,
                   exc, result>>


\* ast.parse, then FTCTranspiler() and transpiler.visit(tree)
Parse ==
    /\ pc = "start"
    /\ IF python_code.ok
       THEN /\ pc' = "visit"
            /\ stack' = <<VisitFrame(python_code.tree)>>
            /\ exc' = exc
       ELSE /\ pc' = "except"
            /\ stack' = stack
            /\ exc' = PyStr(python_code.error)
    /\ java_code' = <<>>
    /\ hardware_components' = <<>>
    /\ opmode_info' = PyNone
    /\ class_name' = ""
    /\ indent_level' = 0
    /\ UNCHANGED <<python_code, result>>

\* the statements among the children of a node, in field order
ChildStatements(node) == IF node.k \in {"Module", "For"} THEN node.body ELSE <<>>

\* NodeVisitor.generic_visit, for every node that has no handler
generic_visit ==
    /\ pc = "visit" /\ stack # <<>> /\ Top.op = "visit"
    /\ Top.node.k \notin HandledKinds
    /\ Emit(java_code, indent_level, Visits(ChildStatements(Top.node)))

visit_ClassDef ==
    /\ Visiting({"ClassDef"})
    /\ LET node == Top.node
           info == ProcessDecorators(opmode_info, node.decorator_list, node.name)
           annotated == IF info # PyNone
                        THEN add_line(java_code, indent_level, AnnotationLine(info))
                        ELSE java_code
           header == add_line(annotated, indent_level, ClassHeaderLine(node.name))
           level == indent_level + 1
           declared == IF hardware_components # <<>>
                       THEN AddLines(header, level, DeclarationLines(hardware_components))
                       ELSE header
           scanned == ScanClassBody(hardware_components, node.body)
           inserted == IF scanned # <<>>
                       THEN InsertLines(declared, level, DeclarationLines(scanned))
                       ELSE declared
       IN /\ class_name' = node.name
          /\ opmode_info' = info
          /\ hardware_components' = scanned
          /\ java_code' = inserted
          /\ indent_level' = level
          /\ stack' = Visits(node.body) \o <<Frame("ClassDef_end")>> \o Tail(stack)
          /\ UNCHANGED <<python_code, pc, exc, result>>

ClassDef_end ==
    /\ Resuming("ClassDef_end")
    /\ Emit(add_line(java_code, indent_level - 1, "}"), indent_level - 1, <<>>)

generate_init_hardware ==
    /\ Visiting({"FunctionDef"}) /\ Top.node.name = "init_hardware"
    /\ Emit(add_line(java_code, indent_level, "private void initHardware() {"),
            indent_level + 1,
            Visits(Top.node.body) \o <<Frame("init_hardware_end")>>)

init_hardware_end ==
    /\ Resuming("init_hardware_end")
    /\ Emit(AddLines(java_code, indent_level - 1, <<"}", "">>), indent_level - 1, <<>>)

\* the prologue with the start-wait ahead of the hardware initialisation
RunPrologue_WaitFirst ==
    <<"waitForStart();", "", "initHardware();", "",
      "telemetry.addData(\"Status\", \"Initialized\");", "telemetry.update();", "">>

RunPrologue ==
    <<"initHardware();", "", "telemetry.addData(\"Status\", \"Initialized\");",
      "telemetry.update();", "", "waitForStart();", "">>

generate_run_opmode ==
    /\ Visiting({"FunctionDef"}) /\ Top.node.name = "run"
    /\ Emit(AddLines(AddLines(java_code, indent_level,
                              <<"@Override", "public void runOpMode() {">>),
                     indent_level + 1, RunPrologue),
            indent_level + 1,
            Visits(Top.node.body) \o <<Frame("run_end")>>)

run_end ==
    /\ Resuming("run_end")
    /\ Emit(add_line(java_code, indent_level - 1, "}"), indent_level - 1, <<>>)

generate_loop_method ==
    /\ Visiting({"FunctionDef"}) /\ Top.node.name = "loop"
    /\ Emit(add_line(java_code, indent_level, "while (opModeIsActive()) {"),
            indent_level + 1,
            Visits(Top.node.body) \o <<Frame("loop_end")>>)

loop_end ==
    /\ Resuming("loop_end")
    /\ Emit(add_line(add_line(java_code, indent_level, "telemetry.update();"),
                     indent_level - 1, "}"),
            indent_level - 1, <<>>)

\* the non-receiver parameters, each typed double
RECURSIVE Params(_)
Params(args) ==
    IF args = <<>> THEN <<>>
    ELSE (IF Head(args) # "self" THEN <<"double " \o Head(args)>> ELSE <<>>)
         \o Params(Tail(args))

generate_regular_method ==
    /\ Visiting({"FunctionDef"})
    /\ Top.node.name \notin {"init_hardware", "run", "loop"}
    /\ Emit(add_line(java_code, indent_level,
                     "private void " \o Top.node.name \o "("
                        \o Join(", ", Params(Top.node.args)) \o ") {"),
            indent_level + 1,
            Visits(Top.node.body) \o <<Frame("regular_method_end")>>)

regular_method_end ==
    /\ Resuming("regular_method_end")
    /\ Emit(AddLines(java_code, indent_level - 1, <<"}", "">>), indent_level - 1, <<>>)

\* the lines visit_Assign adds for a statement (none for a form it skips)
AssignLines(node) ==
    IF Len(node.targets) = 1 /\ node.targets[1].k = "Attribute"
    THEN LET attr == node.targets[1]
         IN IF ~IsSelfAttribute(attr) THEN <<>>
            ELSE IF IsNameCall(node.value)
            THEN LET func_name == node.value.func.id
                     config_name == get_string_arg(node.value, 0, PyStr(attr.attr))
                     direction == get_string_arg(node.value, 1, PyNone)
                 IN IF func_name \notin DOMAIN hardware_types THEN <<>>
                    ELSE <<attr.attr \o " = hardwareMap.get(" \o hardware_types[func_name]
                             \o ".class, \"" \o Str(config_name) \o "\");">>
                         \o (IF Truthy(direction) /\ func_name = "motor"
                             THEN <<attr.attr \o ".setDirection("
                                      \o (IF direction.py = "str"
                                          THEN Get(motor_directions, direction.s, direction.s)
                                          ELSE Str(direction))
                                      \o ");">>
                             ELSE <<>>)
            ELSE <<attr.attr \o " = " \o visit_expression(node.value) \o ";">>
    ELSE IF Len(node.targets) = 1 /\ node.targets[1].k = "Name"
    THEN <<"double " \o node.targets[1].id \o " = " \o visit_expression(node.value) \o ";">>
    ELSE <<>>

\* whether visit_Assign translates the source of the statement
AssignEvaluates(node) ==
    /\ Len(node.targets) = 1
    /\ \/ IsSelfAttribute(node.targets[1]) /\ ~IsNameCall(node.value)
       \/ node.targets[1].k = "Name"

visit_Assign ==
    /\ Visiting({"Assign"})
    /\ IF AssignEvaluates(Top.node) /\ RaisesIndexError(Top.node.value)
       THEN Raise(IndexErrorMessage)
       ELSE Emit(AddLines(java_code, indent_level, AssignLines(Top.node)),
                 indent_level, <<>>)

\* the lines visit_Expr adds for an expression statement
ExprLines(node) ==
    IF node.value.k = "Call" /\ ~StartsWith(visit_call_expression(node.value), "/*")
    THEN <<visit_call_expression(node.value) \o ";">>
    ELSE <<>>

visit_Expr ==
    /\ Visiting({"Expr"})
    /\ IF Top.node.value.k = "Call" /\ RaisesIndexError(Top.node.value)
       THEN Raise(IndexErrorMessage)
       ELSE Emit(AddLines(java_code, indent_level, ExprLines(Top.node)),
                 indent_level, <<>>)

visit_If ==
    /\ Visiting({"If"})
    /\ IF RaisesIndexError(Top.node.test)
       THEN Raise(IndexErrorMessage)
       ELSE Emit(add_line(java_code, indent_level,
                          "if (" \o visit_expression(Top.node.test) \o ") {"),
                 indent_level + 1,
                 Visits(Top.node.body) \o <<[op |-> "If_orelse", node |-> Top.node]>>)

\* visit_If after the body: the else branch, or the closing brace
If_orelse ==
    /\ Resuming("If_orelse")
    /\ IF Top.node.orelse # <<>>
       THEN Emit(add_line(java_code, indent_level - 1, "} else {"),
                 indent_level,
                 Visits(Top.node.orelse) \o <<Frame("If_end")>>)
       ELSE Emit(add_line(java_code, indent_level - 1, "}"), indent_level - 1, <<>>)

\* visit_If that forgets the brace that closes the else branch
If_end_Unclosed ==
    /\ Resuming("If_end")
    /\ Emit(java_code, indent_level - 1, <<>>)

\* visit_If after the else branch
If_end ==
    /\ Resuming("If_end")
    /\ Emit(add_line(java_code, indent_level - 1, "}"), indent_level - 1, <<>>)

visit_While ==
    /\ Visiting({"While"})
    /\ IF RaisesIndexError(Top.node.test)
       THEN Raise(IndexErrorMessage)
       ELSE Emit(add_line(java_code, indent_level,
                          "while (" \o visit_expression(Top.node.test) \o ") {"),
                 indent_level + 1,
                 Visits(Top.node.body) \o <<Frame("While_end")>>)

\* visit_While that closes the block without lowering the depth
While_end_NoDedent ==
    /\ Resuming("While_end")
    /\ Emit(add_line(java_code, indent_level - 1, "}"), indent_level, <<>>)

While_end ==
    /\ Resuming("While_end")
    /\ Emit(add_line(java_code, indent_level - 1, "}"), indent_level - 1, <<>>)

\* sorted(self.standard_imports)
\* the imports in the order of their declaration, not sorted
SortedImports_Unsorted ==
    <<"com.qualcomm.robotcore.eventloop.opmode.LinearOpMode",
      "com.qualcomm.robotcore.eventloop.opmode.TeleOp",
      "com.qualcomm.robotcore.eventloop.opmode.Autonomous",
      "com.qualcomm.robotcore.hardware.DcMotor",
      "com.qualcomm.robotcore.hardware.Servo",
      "com.qualcomm.robotcore.hardware.ColorSensor",
      "com.qualcomm.robotcore.hardware.DistanceSensor",
      "com.qualcomm.robotcore.hardware.TouchSensor",
      "com.qualcomm.robotcore.hardware.LightSensor",
      "com.qualcomm.robotcore.hardware.IMU",
      "org.firstinspires.ftc.robotcore.external.navigation.DistanceUnit",
      "org.firstinspires.ftc.robotcore.external.navigation.AngleUnit">>

SortedImports ==
    <<"com.qualcomm.robotcore.eventloop.opmode.Autonomous",
      "com.qualcomm.robotcore.eventloop.opmode.LinearOpMode",
      "com.qualcomm.robotcore.eventloop.opmode.TeleOp",
      "com.qualcomm.robotcore.hardware.ColorSensor",
      "com.qualcomm.robotcore.hardware.DcMotor",
      "com.qualcomm.robotcore.hardware.DistanceSensor",
      "com.qualcomm.robotcore.hardware.IMU",
      "com.qualcomm.robotcore.hardware.LightSensor",
      "com.qualcomm.robotcore.hardware.Servo",
      "com.qualcomm.robotcore.hardware.TouchSensor",
      "org.firstinspires.ftc.robotcore.external.navigation.AngleUnit",
      "org.firstinspires.ftc.robotcore.external.navigation.DistanceUnit">>

ImportLines == [i \in 1..Len(SortedImports) |-> "import " \o SortedImports[i] \o ";"]

JavaText(code) == Join("\n", ImportLines) \o "\n\n" \o Join("\n", code)

\* the visit returned: transpiler.generate_java_code() is the result
generate_java_code ==
    /\ pc = "visit" /\ stack = <<>>
    /\ result' = PyStr(JavaText(java_code))
    /\ pc' = "done"
    /\ UNCHANGED <<python_code, stack, java_code, hardware_components, opmode_info,
                   class_name, indent_level, exc>>

FallbackText(message, source) ==
    "// Transpilation error: " \o message \o "\n// Original Python code:\n/*\n"
        \o source \o "\n*/"

\* except SyntaxError as e: only a failure of the parse is caught
Except_SyntaxErrorOnly ==
    /\ pc = "except" /\ ~python_code.ok
    /\ result' = PyStr(FallbackText(Str(exc), python_code.src))
    /\ pc' = "done"
    /\ UNCHANGED <<python_code, stack, java_code, hardware_components, opmode_info,
                   class_name, indent_level, exc>>

\* except Exception as e: the fallback block is the result
Except ==
    /\ pc = "except"
    /\ result' = PyStr(FallbackText(Str(exc), python_code.src))
    /\ pc' = "done"
    /\ UNCHANGED <<python_code, stack, java_code, hardware_components, opmode_info,
                   class_name, indent_level, exc>>


-----------------------------------------------------------------------------
(* The source text of a tree: what the front end read to build it.         *)

PythonOperator(op) ==
    CASE op = "Mod" -> "%"
      [] op = "USub" -> "-"
      [] op = "Not" -> "not "
      [] OTHER -> convert_binary_op(op)

RECURSIVE SourceOfExpr(_), SourceOfArgs(_)

SourceOfExpr(node) ==
    CASE node.k = "Constant" ->
            IF node.value.py = "str" THEN "\"" \o node.value.s \o "\""
            ELSE Str(node.value)
      [] node.k = "Name" -> node.id
      [] node.k = "Attribute" -> SourceOfExpr(node.value) \o "." \o node.attr
      [] node.k = "UnaryOp" -> PythonOperator(node.op) \o SourceOfExpr(node.operand)
      [] node.k = "BinOp" ->
            SourceOfExpr(node.left) \o " " \o PythonOperator(node.op) \o " "
                \o SourceOfExpr(node.right)
      [] node.k = "Compare" ->
            SourceOfExpr(node.left) \o " " \o PythonOperator(node.ops[1]) \o " "
                \o SourceOfExpr(node.comparators[1])
      [] node.k = "Call" ->
            SourceOfExpr(node.func) \o "(" \o Join(", ", SourceOfArgs(node.args)) \o ")"

SourceOfArgs(args) ==
    IF args = <<>> THEN <<>> ELSE <<SourceOfExpr(Head(args))>> \o SourceOfArgs(Tail(args))

RECURSIVE SourceLines(_, _), SourceOfBody(_, _)

SourceLines(node, level) ==
    CASE node.k = "Assign" ->
            <<indent(level) \o Join(" = ", SourceOfArgs(node.targets)) \o " = "
                \o SourceOfExpr(node.value)>>
      [] node.k = "Expr" -> <<indent(level) \o SourceOfExpr(node.value)>>
      [] node.k = "Pass" -> <<indent(level) \o "pass">>
      [] node.k = "Return" -> <<indent(level) \o "return " \o SourceOfExpr(node.value)>>
      [] node.k = "If" ->
            <<indent(level) \o "if " \o SourceOfExpr(node.test) \o ":">>
            \o SourceOfBody(node.body, level + 1)
            \o (IF node.orelse = <<>> THEN <<>>
                ELSE <<indent(level) \o "else:">> \o SourceOfBody(node.orelse, level + 1))
      [] node.k = "While" ->
            <<indent(level) \o "while " \o SourceOfExpr(node.test) \o ":">>
            \o SourceOfBody(node.body, level + 1)
      [] node.k = "For" ->
            <<indent(level) \o "for " \o SourceOfExpr(node.target) \o " in "
                \o SourceOfExpr(node.iter) \o ":">>
            \o SourceOfBody(node.body, level + 1)
      [] node.k = "FunctionDef" ->
            <<indent(level) \o "def " \o node.name \o "(" \o Join(", ", node.args) \o "):">>
            \o SourceOfBody(node.body, level + 1)
      [] node.k = "ClassDef" ->
            [i \in 1..Len(node.decorator_list) |->
                indent(level) \o "@" \o SourceOfExpr(node.decorator_list[i])]
            \o <<indent(level) \o "class " \o node.name \o ":">>
            \o SourceOfBody(node.body, level + 1)
      [] node.k = "Module" -> SourceOfBody(node.body, level)

SourceOfBody(body, level) ==
    IF body = <<>> THEN <<>>
    ELSE SourceLines(Head(body), level) \o SourceOfBody(Tail(body), level)

\* an input that parses: the text and its tree
Parsed(tree) == [src |-> Join("\n", SourceLines(tree, 0)) \o "\n", ok |-> TRUE, tree |-> tree]

\* an input the front end rejects with str(e) = error
Malformed(src, error) == [src |-> src, ok |-> FALSE, error |-> error]


-----------------------------------------------------------------------------
(* The inputs: robot programs of the kind the tests and examples hold.     *)

Self(attr) == Attribute(Name("self"), attr)
StrLit(s) == Constant(PyStr(s))
MethodCall(obj, method, args) == Call(Attribute(obj, method), args)
HwAssign(x, kind, args) == Assign(<<Self(x)>>, Call(Name(kind), args))

SeqsUpTo(S, n) == UNION {[1..len -> S] : len \in 1..n}

CompareOps == {"Lt", "Gt", "LtE", "GtE", "Eq", "NotEq"}

SetPower == Expr(MethodCall(Self("m"), "set_power", <<Constant(PyFloat("0.5"))>>))
SetPowerNoArg == Expr(MethodCall(Self("m"), "set_power", <<>>))
UnknownMethod == Expr(MethodCall(Name("self"), "helper", <<>>))
WebcamAssign == Assign(<<Self("cam")>>, Call(Name("webcam"), <<StrLit("Webcam 1")>>))
CountLess == Compare(Name("count"), "Lt", Constant(PyInt(10)))

\* the statements routine bodies are drawn from
SimpleStmts ==
    {SetPower, SetPowerNoArg, UnknownMethod, WebcamAssign,
     Expr(Call(Name("telemetry_add"),
               <<StrLit("a{"), MethodCall(Self("m"), "get_current_position", <<>>)>>)),
     Expr(MethodCall(Self("m"), "set_mode", <<StrLit("run_to_position")>>)),
     Assign(<<Name("count")>>, BinOp(Name("count"), "Add", Constant(PyInt(1)))),
     Assign(<<Name("x")>>, CountLess),
     Assign(<<Self("k")>>, Constant(PyInt(3))),
     HwAssign("z", "motor", <<StrLit("zz"), StrLit("forward")>>),
     Pass,
     For(Name("i"), Name("r"), <<Expr(Call(Name("sleep"), <<Constant(PyInt(10))>>))>>),
     Assign(<<Name("p")>>, MethodCall(Self("m"), "helper", <<>>)),
     Assign(<<Name("a"), Name("b")>>, Constant(PyInt(1)))}

\* further statement forms, each tried alone
ExtraStmts ==
    {Expr(MethodCall(Self("s"), "set_position", <<>>)),
     Expr(MethodCall(Self("m"), "set_target_position", <<>>)),
     Expr(MethodCall(Self("s"), "set_position", <<Name("power")>>)),
     Expr(MethodCall(Self("m"), "set_target_position", <<Constant(PyInt(1000))>>)),
     Expr(MethodCall(Self("m"), "set_mode", <<>>)),
     Expr(MethodCall(Self("m"), "set_mode", <<Name("mode")>>)),
     Expr(MethodCall(Self("d"), "get_distance", <<>>)),
     Expr(MethodCall(Self("t"), "is_pressed", <<>>)),
     Expr(MethodCall(Attribute(Self("m"), "q"), "set_power", <<Constant(PyInt(1))>>)),
     Expr(MethodCall(Name("motor"), "set_power", <<UnaryOp("USub", Name("power"))>>)),
     Expr(Call(Name("sleep"), <<>>)),
     Expr(Call(Name("sleep"), <<MethodCall(Self("m"), "set_power", <<>>)>>)),
     Expr(Call(Name("telemetry_add"), <<StrLit("k")>>)),
     Expr(Call(Name("telemetry_add"), <<StrLit("}"), Constant(PyBool(TRUE))>>)),
     Expr(Call(Name("helper"), <<>>)),
     Expr(StrLit("doc")),
     Expr(Name("count")),
     Return(Name("count")),
     Assign(<<Attribute(Name("robot"), "x")>>, Constant(PyInt(1))),
     Assign(<<Self("k")>>, UnaryOp("Not", Name("x"))),
     Assign(<<Self("k")>>, MethodCall(Self("d"), "get_distance", <<>>)),
     Assign(<<Self("k")>>, MethodCall(Self("m"), "set_power", <<>>)),
     Assign(<<Name("y")>>, BinOp(Name("count"), "Mod", Constant(PyInt(2)))),
     Assign(<<Name("drive")>>, UnaryOp("USub", Attribute(Name("gamepad1"), "left_stick_y"))),
     Assign(<<Name("turn")>>, Attribute(Name("gamepad2"), "x_button")),
     Assign(<<Name("v")>>, Attribute(Name("robot"), "speed")),
     Assign(<<Name("w")>>,
            BinOp(BinOp(Name("a"), "Mult", Name("b")), "Sub",
                  BinOp(Name("c"), "Div", Name("d")))),
     If(MethodCall(Self("m"), "set_power", <<>>), <<SetPower>>, <<>>),
     While(MethodCall(Self("t"), "is_pressed", <<>>), <<SetPower>>)}
    \cup {Assign(<<Name("x")>>, Compare(Name("count"), op, Constant(PyInt(10)))) :
            op \in CompareOps}
    \cup {While(Compare(Name("count"), op, Name("limit")), <<SetPower>>) : op \in CompareOps}
    \cup {If(Compare(Name("count"), op, Name("limit")), <<SetPower>>, <<>>) : op \in CompareOps}

\* nested if / elif / else / while statements, to a depth
NestTests == {Attribute(Name("gamepad1"), "a_button"), CountLess}
NestLeaves == {SetPower, UnknownMethod}

RECURSIVE Nest(_)
Nest(depth) ==
    IF depth = 0 THEN NestLeaves
    ELSE LET inner == Nest(depth - 1)
         IN inner
            \cup {While(t, <<b>>) : t \in NestTests, b \in inner}
            \cup {If(t, <<b>>, <<>>) : t \in NestTests, b \in inner}
            \cup {If(t, <<b>>, <<SetPower>>) : t \in NestTests, b \in inner}
            \cup {If(t, <<SetPower>>, <<b>>) : t \in NestTests, b \in inner}

\* the statements init_hardware bodies are drawn from
HwStmts ==
    {HwAssign("m", "motor", <<StrLit("left_drive"), StrLit("forward")>>),
     HwAssign("m", "servo", <<StrLit("sv")>>),
     HwAssign("s", "servo", <<StrLit("sv")>>),
     HwAssign("s", "motor", <<StrLit("right_drive"), StrLit("reverse")>>),
     HwAssign("m", "motor", <<StrLit("left_drive"), StrLit("sideways")>>),
     HwAssign("s", "motor", <<Name("port"), StrLit("forward")>>),
     Assign(<<Self("k")>>, Constant(PyInt(3))),
     If(Name("x"), <<HwAssign("z", "motor", <<StrLit("zz"), StrLit("forward")>>)>>, <<>>),
     WebcamAssign}

\* every hardware kind, with and without arguments, each tried alone
ExtraHwStmts ==
    {HwAssign("g", kind, args) :
        kind \in DOMAIN hardware_types,
        args \in {<<>>, <<StrLit("cfg")>>, <<StrLit("cfg"), StrLit("reverse")>>,
                  <<Constant(PyInt(5)), Constant(PyInt(0))>>,
                  <<StrLit("c{"), Constant(PyInt(7))>>}}

Method(name, body) == FunctionDef(name, <<"self">>, body)
DefaultInit == Method("init_hardware",
                      <<HwAssign("m", "motor", <<StrLit("left_drive"), StrLit("forward")>>)>>)
DefaultRun == Method("run", <<Expr(MethodCall(Name("self"), "loop", <<>>))>>)
DefaultLoop == Method("loop", <<SetPower>>)
TeleopDecorator == Call(Name("teleop"), <<StrLit("Test Robot"), StrLit("Test Group")>>)

Robot(decorators, members) == Module(<<ClassDef("R", decorators, members)>>)

\* one routine body varies, the rest of the class is fixed
BodyPrograms ==
    {Robot(<<TeleopDecorator>>, <<DefaultInit, DefaultRun, Method("loop", body)>>) :
        body \in SeqsUpTo(SimpleStmts, MaxBody)}

RoutinePrograms ==
    {Robot(<<TeleopDecorator>>, <<DefaultInit, FunctionDef(name, args, <<stmt>>)>>) :
        name \in {"run", "loop", "drive", "init_hardware"},
        args \in {<<"self">>, <<"self", "power", "turn">>},
        stmt \in SimpleStmts \cup ExtraStmts}

NestPrograms ==
    {Robot(<<TeleopDecorator>>, <<DefaultInit, DefaultRun, Method("loop", <<stmt>>)>>) :
        stmt \in Nest(MaxDepth)}

HwPrograms ==
    {Robot(<<TeleopDecorator>>, <<Method("init_hardware", body), DefaultRun, DefaultLoop>>) :
        body \in SeqsUpTo(HwStmts, MaxHw) \cup {<<stmt>> : stmt \in ExtraHwStmts}}

DecoratorLists ==
    {<<>>, <<TeleopDecorator>>,
     <<Call(Name("autonomous"), <<StrLit("Auto Robot"), StrLit("Auto Group")>>)>>,
     <<Call(Name("teleop"), <<>>)>>,
     <<Call(Name("teleop"), <<StrLit("Only Name")>>)>>,
     <<Call(Name("autonomous"), <<Name("title"), Constant(PyInt(7))>>)>>,
     <<Call(Name("teleop"), <<StrLit("A{"), StrLit("G")>>)>>,
     <<Name("teleop")>>,
     <<Call(Name("disabled"), <<>>)>>,
     <<Call(Attribute(Name("ftc"), "teleop"), <<StrLit("N"), StrLit("G")>>)>>,
     <<TeleopDecorator, Call(Name("autonomous"), <<StrLit("Second")>>)>>,
     <<Call(Name("autonomous"), <<StrLit("First")>>), Call(Name("disabled"), <<>>)>>}

MemberLists ==
    {<<Pass>>, <<DefaultRun>>, <<DefaultLoop>>, <<DefaultInit>>,
     <<DefaultInit, DefaultRun>>, <<DefaultRun, DefaultInit>>,
     <<DefaultInit, DefaultRun, DefaultLoop>>,
     <<DefaultRun, DefaultLoop, Method("drive", <<SetPower>>)>>,
     <<DefaultInit,
       Method("init_hardware", <<HwAssign("s", "servo", <<StrLit("sv")>>)>>)>>,
     <<Assign(<<Name("speed")>>, Constant(PyFloat("0.5"))), DefaultRun>>}

ClassPrograms ==
    {Robot(decorators, members) : decorators \in DecoratorLists, members \in MemberLists}

\* several units in one input, and statements outside any class
SecondClasses ==
    {ClassDef("B", decorators, members) :
        decorators \in {<<>>, <<Call(Name("autonomous"), <<StrLit("B Auto")>>)>>},
        members \in {<<Pass>>, <<DefaultRun>>,
                     <<Method("init_hardware",
                              <<HwAssign("z", "imu", <<StrLit("imu")>>)>>)>>,
                     <<DefaultInit, DefaultLoop>>}}

ModulePrograms ==
    {Module(<<ClassDef("R", decorators, members), second>>) :
        decorators \in {<<>>, <<TeleopDecorator>>},
        members \in {<<Pass>>, <<DefaultInit, DefaultRun>>},
        second \in SecondClasses}
    \cup {Module(<<Assign(<<Name("speed")>>, Constant(PyInt(1))),
                   ClassDef("R", <<>>, <<DefaultRun>>)>>),
          Module(<<Method("loop", <<SetPower>>)>>),
          Module(<<Pass>>)}

MalformedInputs ==
    {Malformed("@teleop(\"Error Test\", \"Test\")\nclass ErrorRobot\n    def run(self):\n        pass\n",
               "expected ':' (<unknown>, line 2)"),
     Malformed("x = 1 */ 2\n", "invalid syntax (<unknown>, line 1)"),
     Malformed("class A:\n  def f(self):\n pass\n",
               "unindent does not match any outer indentation level (<unknown>, line 3)"),
     Malformed("x = {\n", "'{' was never closed (<unknown>, line 1)")}

Inputs ==
    {Parsed(tree) : tree \in BodyPrograms \cup RoutinePrograms \cup NestPrograms
                        \cup HwPrograms \cup ClassPrograms \cup ModulePrograms}
    \cup MalformedInputs

-----------------------------------------------------------------------------
(* The state machine: one call of transpile_ftc_python_to_java.            *)

Init ==
    /\ python_code \in Inputs
    /\ pc = "start"
    /\ stack = <<>>
    /\ java_code = <<>>
    /\ hardware_components = <<>>
    /\ opmode_info = PyNone
    /\ class_name = ""
    /\ indent_level = 0
    /\ exc = PyNone
    /\ result = PyNone

Next ==
    \/ Parse
    \/ generic_visit
    \/ visit_ClassDef
    \/ ClassDef_end
    \/ generate_init_hardware
    \/ init_hardware_end
    \/ generate_run_opmode
    \/ run_end
    \/ generate_loop_method
    \/ loop_end
    \/ generate_regular_method
    \/ regular_method_end
    \/ visit_Assign
    \/ visit_Expr
    \/ visit_If
    \/ If_orelse
    \/ If_end
    \/ visit_While
    \/ While_end
    \/ generate_java_code
    \/ Except

Spec == Init /\ [][Next]_vars


-----------------------------------------------------------------------------
(* Reading the result text and the input tree, for the properties below.   *)

Done == pc = "done"
\* the call returned the translated text
Translated == pc = "done" /\ exc = PyNone
\* the call returned the fallback block
FellBack == pc = "done" /\ exc # PyNone

\* the members of a set of numbers, in increasing order
RECURSIVE Ascending(_)
Ascending(S) ==
    IF S = {} THEN <<>>
    ELSE LET least == CHOOSE x \in S : \A y \in S : x <= y
         IN <<least>> \o Ascending(S \ {least})

\* text.split("\n")
SplitLines(text) ==
    LET breaks == Ascending({i \in 1..Len(text) : SubSeq(text, i, i) = "\n"})
        edges == <<0>> \o breaks \o <<Len(text) + 1>>
    IN [n \in 1..(Len(breaks) + 1) |-> SubSeq(text, edges[n] + 1, edges[n + 1] - 1)]

\* line.lstrip(" ")
RECURSIVE LStrip(_)
LStrip(line) ==
    IF Len(line) > 0 /\ SubSeq(line, 1, 1) = " " THEN LStrip(SubSeq(line, 2, Len(line)))
    ELSE line

EndsWith(s, p) == Len(s) >= Len(p) /\ SubSeq(s, Len(s) - Len(p) + 1, Len(s)) = p

\* the number of places where part occurs in text
Occurrences(text, part) ==
    Cardinality({i \in 1..(Len(text) - Len(part) + 1) :
                    SubSeq(text, i, i + Len(part) - 1) = part})

\* the lines of the returned text, without their indentation
OutputLines == LET lines == SplitLines(result.s) IN [i \in DOMAIN lines |-> LStrip(lines[i])]

\* the places of a line in the output
Places(lines, line) == {i \in DOMAIN lines : lines[i] = line}

\* the nodes directly under a node, in field order
Children(node) ==
    CASE node.k = "Attribute" -> <<node.value>>
      [] node.k = "UnaryOp" -> <<node.operand>>
      [] node.k = "BinOp" -> <<node.left, node.right>>
      [] node.k = "Compare" -> <<node.left>> \o node.comparators
      [] node.k = "Call" -> <<node.func>> \o node.args
      [] node.k = "Assign" -> node.targets \o <<node.value>>
      [] node.k \in {"Expr", "Return"} -> <<node.value>>
      [] node.k = "If" -> <<node.test>> \o node.body \o node.orelse
      [] node.k = "While" -> <<node.test>> \o node.body
      [] node.k = "For" -> <<node.target, node.iter>> \o node.body
      [] node.k = "ClassDef" -> node.decorator_list \o node.body
      [] node.k \in {"FunctionDef", "Module"} -> node.body
      [] OTHER -> <<>>

\* every node of a tree
RECURSIVE Nodes(_), NodesOfAll(_)
Nodes(node) == {node} \cup NodesOfAll(Children(node))
NodesOfAll(nodes) == IF nodes = <<>> THEN {} ELSE Nodes(Head(nodes)) \cup NodesOfAll(Tail(nodes))

InputNodes == IF python_code.ok THEN Nodes(python_code.tree) ELSE {}


-----------------------------------------------------------------------------
(* C1: the entry point returns a text for every input and never raises;    *)
(* when parsing or emission fails the text is the fallback block: the line *)
(* '// Transpilation error: <message>', the line '// Original Python       *)
(* code:', and the input verbatim between '/*' and '*/'.                   *)

FallbackBlock(message) ==
    Join("\n", <<"// Transpilation error: " \o message, "// Original Python code:",
                 "/*", python_code.src, "*/">>)

\* C1: an exception raised anywhere (pc = "except") is always caught and
\* turned into a result, the call goes on from its start and from the end of
\* the visit, a call that returned gave a text, and after a parse or emission
\* failure that text is the fallback block with the error message and the input.
C1_AlwaysReturnsText ==
    /\ pc \in {"start", "except"} => ENABLED Next
    /\ pc = "visit" /\ stack = <<>> => ENABLED generate_java_code
    /\ pc \in {"start", "visit", "except", "done"}
    /\ pc = "done" => result.py = "str"
    /\ pc = "done" /\ ~python_code.ok => result.s = FallbackBlock(python_code.error)
    /\ pc = "done" /\ exc # PyNone => result.s = FallbackBlock(Str(exc))
    /\ pc = "except" => exc # PyNone

\* C1 witness: an input that parsed, failed in emission and got the fallback
C1_Witness ==
    /\ pc = "done" /\ python_code.ok /\ exc = PyStr(IndexErrorMessage)
    /\ StartsWith(result.s, "// Transpilation error: list index out of range\n")

-----------------------------------------------------------------------------
(* C2: for every input that parses the output is translated text, not the  *)
(* fallback block; a known operation called without its argument           *)
(* (set_power(), set_position(), set_target_position()) yields a default   *)
(* or an inline marker.                                                    *)

\* C2 as claimed: an input that parses never ends in the fallback block
C2_ParsedInputIsTranslated ==
    pc = "done" /\ python_code.ok =>
        /\ ~StartsWith(result.s, "// Transpilation error:")
        /\ result.s = JavaText(java_code)

-----------------------------------------------------------------------------
(* C3: for all valid inputs the output has as many '{' as '}', whatever    *)
(* the nesting of class, routines, if / elif / else and while.             *)

\* the string literals of the input
StringLiterals == {n.value.s : n \in {m \in InputNodes : m.k = "Constant" /\ m.value.py = "str"}}

BraceFree(text) == CountChar(text, "{") = 0 /\ CountChar(text, "}") = 0

\* C3 as claimed, for every translated output
C3_BracesBalanced ==
    Translated => CountChar(result.s, "{") = CountChar(result.s, "}")

\* the input has no brace, neither in its text nor in the value of a string literal
BraceFreeInput ==
    /\ python_code.ok
    /\ BraceFree(python_code.src)
    /\ \A literal \in StringLiterals : BraceFree(literal)

\* C3 amended: the output of a valid input that has no brace in its text or
\* in a string literal, be it the translation or the fallback block, has as
\* many '{' as '}'.
C3_BracesBalancedWithoutLiteralBraces ==
    Done /\ BraceFreeInput => CountChar(result.s, "{") = CountChar(result.s, "}")

\* C3 witness: an if / else inside a while inside a routine inside a class
C3_Witness ==
    /\ Translated
    /\ BraceFreeInput
    /\ \E w \in InputNodes : w.k = "While" /\ \E i \in Nodes(w) : i.k = "If" /\ i.orelse # <<>>
    /\ CountChar(result.s, "{") >= 5

-----------------------------------------------------------------------------
(* C4: the field declarations 'private <Type> <name> = null;' come after   *)
(* the header line 'public class <UnitName> extends LinearOpMode {' and    *)
(* before the first translated member, in discovery order.                 *)

IsDeclarationLine(line) == StartsWith(line, "private ") /\ EndsWith(line, " = null;")
IsHeaderLine(line) == StartsWith(line, "public class ")

\* C4 as claimed: no field declaration stands before the first class header
C4_DeclarationsAfterHeader ==
    Translated =>
        LET lines == OutputLines
        IN \A d \in DOMAIN lines :
              IsDeclarationLine(lines[d]) => \E h \in 1..(d - 1) : IsHeaderLine(lines[h])


-----------------------------------------------------------------------------
(* C5: a direct statement self.X = kind("cfg", "dir") of init_hardware,    *)
(* kind in the hardware-kind table, yields in this order the declaration   *)
(* 'private <Type(kind)> X = null;', the lookup 'X = hardwareMap.get(      *)
(* <Type(kind)>.class, "cfg");' and, for a motor with a recognized         *)
(* direction, 'X.setDirection(<mapped direction>);'.                       *)

ClassNodes == {n \in InputNodes : n.k = "ClassDef"}

IsHardwareStatement(stmt) ==
    /\ stmt.k = "Assign"
    /\ Len(stmt.targets) = 1
    /\ IsSelfAttribute(stmt.targets[1])
    /\ IsNameCall(stmt.value)
    /\ stmt.value.func.id \in DOMAIN hardware_types

IsStringLiteral(node) == node.k = "Constant" /\ node.value.py = "str"

\* the direct hardware statements of the init_hardware routines of a class
RECURSIVE DirectHardwareStatements(_)
DirectHardwareStatements(members) ==
    IF members = <<>> THEN <<>>
    ELSE (IF Head(members).k = "FunctionDef" /\ Head(members).name = "init_hardware"
          THEN SelectSeq(Head(members).body, IsHardwareStatement)
          ELSE <<>>)
         \o DirectHardwareStatements(Tail(members))

\* the ones the claim is about: the config name is a string literal
ClaimedHardwareStatements(class) ==
    {stmt \in {DirectHardwareStatements(class.body)[i] :
                  i \in DOMAIN DirectHardwareStatements(class.body)} :
        Len(stmt.value.args) >= 1 /\ IsStringLiteral(stmt.value.args[1])}

DeclarationOf(type, x) == "private " \o type \o " " \o x \o " = null;"

LookupOf(stmt) ==
    stmt.targets[1].attr \o " = hardwareMap.get(" \o hardware_types[stmt.value.func.id]
        \o ".class, \"" \o stmt.value.args[1].value.s \o "\");"

HasRecognizedDirection(stmt) ==
    /\ stmt.value.func.id = "motor"
    /\ Len(stmt.value.args) >= 2
    /\ IsStringLiteral(stmt.value.args[2])
    /\ stmt.value.args[2].value.s \in {"forward", "reverse"}

DirectionOf(stmt) ==
    stmt.targets[1].attr \o ".setDirection(DcMotor.Direction."
        \o (IF stmt.value.args[2].value.s = "forward" THEN "FORWARD" ELSE "REVERSE") \o ");"

\* declaration, then lookup, then (when due) direction, somewhere in the lines
InOrder(lines, declaration, stmt) ==
    \E d \in Places(lines, declaration), l \in Places(lines, LookupOf(stmt)) :
        /\ d < l
        /\ HasRecognizedDirection(stmt) =>
              \E r \in Places(lines, DirectionOf(stmt)) : l < r

\* C5 as claimed: the declaration is typed per the kind of the statement
C5_DeclarationLookupDirection ==
    Translated =>
        LET lines == OutputLines
        IN \A class \in ClassNodes : \A stmt \in ClaimedHardwareStatements(class) :
              InOrder(lines,
                      DeclarationOf(hardware_types[stmt.value.func.id], stmt.targets[1].attr),
                      stmt)

-----------------------------------------------------------------------------
(* C6: an if / elif / else chain is rendered as an 'else if' chain: each   *)
(* elif branch gives a line '} else if (<condition>) {'.                   *)

IsElif(node) == node.k = "If" /\ Len(node.orelse) = 1 /\ node.orelse[1].k = "If"

\* C6 as claimed: every elif branch has its '} else if (...) {' line
C6_ElifIsElseIf ==
    Translated =>
        \A node \in {n \in InputNodes : IsElif(n)} :
            Places(OutputLines,
                   "} else if (" \o visit_expression(node.orelse[1].test) \o ") {") # {}

-----------------------------------------------------------------------------
(* C7: a comparison 'a OP b', OP in < > <= >= == !=, used as an if or      *)
(* while condition or as an assignment source, is rendered 'a OP b'.       *)

ComparisonText(node) ==
    visit_expression(node.left) \o " " \o convert_binary_op(node.ops[1]) \o " "
        \o visit_expression(node.comparators[1])

\* C7 as claimed: the statement that uses a comparison shows it as 'a OP b'
C7_ComparisonRendered ==
    Translated =>
        \A node \in InputNodes :
            /\ node.k = "While" /\ node.test.k = "Compare" =>
                  Places(OutputLines, "while (" \o ComparisonText(node.test) \o ") {") # {}
            /\ node.k = "If" /\ node.test.k = "Compare" =>
                  Places(OutputLines, "if (" \o ComparisonText(node.test) \o ") {") # {}
            /\ (/\ node.k = "Assign" /\ node.value.k = "Compare"
                /\ Len(node.targets) = 1 /\ node.targets[1].k = "Name") =>
                  Places(OutputLines, "double " \o node.targets[1].id \o " = "
                                        \o ComparisonText(node.value) \o ";") # {}

-----------------------------------------------------------------------------
(* C8: every statement of a routine body produces at least one output      *)
(* line, its translation or a visible marker.                              *)

\* C8 as claimed, for the assignments and the call statements: the visit of
\* one that does not raise adds a line to the buffer
C8_NoStatementDropped ==
    [][(/\ Visiting({"Assign", "Expr"})
        /\ Top.node.k = "Expr" => Top.node.value.k = "Call"
        /\ pc' = "visit")
       => Len(java_code') > Len(java_code)]_vars

-----------------------------------------------------------------------------
(* C9: a unit with exactly one unsupported expression or call gives        *)
(* exactly one inline marker, where that construct stood.                  *)

KnownMethods ==
    FirstArgMethods \cup {"get_distance", "is_pressed", "get_current_position", "set_mode"}

\* the constructs of an expression the translator has no rule for
RECURSIVE UnsupportedIn(_)
UnsupportedIn(node) ==
    CASE node.k \in {"Constant", "Name"} -> 0
      [] node.k = "Attribute" /\ node.value.k = "Name" -> 0
      [] node.k = "UnaryOp" /\ node.op = "USub" -> UnsupportedIn(node.operand)
      [] node.k = "BinOp" -> UnsupportedIn(node.left) + UnsupportedIn(node.right)
      [] node.k = "Call" /\ node.func.k = "Attribute" /\ node.func.attr \in KnownMethods ->
            UnsupportedIn(node.func.value)
            + (IF node.func.attr \in FirstArgMethods /\ Len(node.args) > 0
               THEN UnsupportedIn(node.args[1]) ELSE 0)
      [] node.k = "Call" /\ node.func.k = "Name" /\ node.func.id = "telemetry_add"
            /\ Len(node.args) >= 2 ->
            UnsupportedIn(node.args[1]) + UnsupportedIn(node.args[2])
      [] node.k = "Call" /\ node.func.k = "Name" /\ node.func.id = "sleep"
            /\ Len(node.args) > 0 ->
            UnsupportedIn(node.args[1])
      [] OTHER -> 1

\* the unsupported constructs of a statement and of the statements in it
RECURSIVE UnsupportedInStatement(_), UnsupportedInBody(_)
UnsupportedInStatement(node) ==
    CASE node.k = "Assign" -> IF IsHardwareStatement(node) THEN 0 ELSE UnsupportedIn(node.value)
      [] node.k = "Expr" -> IF node.value.k = "Call" THEN UnsupportedIn(node.value) ELSE 0
      [] node.k = "If" ->
            UnsupportedIn(node.test) + UnsupportedInBody(node.body)
                + UnsupportedInBody(node.orelse)
      [] node.k = "While" -> UnsupportedIn(node.test) + UnsupportedInBody(node.body)
      [] node.k \in {"For", "FunctionDef", "ClassDef", "Module"} -> UnsupportedInBody(node.body)
      [] OTHER -> 0
UnsupportedInBody(body) ==
    IF body = <<>> THEN 0
    ELSE UnsupportedInStatement(Head(body)) + UnsupportedInBody(Tail(body))

Markers(text) == Occurrences(text, UNKNOWN_EXPRESSION) + Occurrences(text, UNKNOWN_CALL)

\* C9 as claimed: one unsupported construct in the unit, one marker in the output
C9_OneUnsupportedOneMarker ==
    Translated /\ UnsupportedInStatement(python_code.tree) = 1 => Markers(result.s) = 1

-----------------------------------------------------------------------------
(* C10: an assignment to self.X whose source is not a recognized hardware  *)
(* constructor call emits 'X = <translated source>;', also when the source *)
(* is a call to a bare name outside the hardware-kind table, whose call    *)
(* text is kept.                                                           *)

IsPlainSelfAssignment(node) ==
    /\ node.k = "Assign"
    /\ Len(node.targets) = 1
    /\ IsSelfAttribute(node.targets[1])
    /\ ~IsHardwareStatement(node)

\* C10 as claimed: the assignment is in the output, a bare-name call with its text
C10_PlainAssignmentEmitted ==
    Translated =>
        \A node \in {n \in InputNodes : IsPlainSelfAssignment(n)} :
            IF IsNameCall(node.value)
            THEN \E i \in DOMAIN OutputLines :
                    /\ StartsWith(OutputLines[i], node.targets[1].attr \o " = ")
                    /\ Occurrences(OutputLines[i], SourceOfExpr(node.value)) > 0
            ELSE Places(OutputLines, node.targets[1].attr \o " = "
                                        \o visit_expression(node.value) \o ";") # {}

-----------------------------------------------------------------------------
(* C11: a class that has no teleop(...) or autonomous(...) decorator call  *)
(* is emitted with no '@TeleOp' or '@Autonomous' annotation line, and this *)
(* holds for every class of the input.                                     *)

IsOpModeDecorator(decorator) ==
    /\ decorator.k = "Call"
    /\ decorator.func.k = "Name"
    /\ decorator.func.id \in {"teleop", "autonomous"}

IsDecorated(class) ==
    \E i \in DOMAIN class.decorator_list : IsOpModeDecorator(class.decorator_list[i])

IsAnnotationLine(line) == StartsWith(line, "@TeleOp(") \/ StartsWith(line, "@Autonomous(")

AnnotationPlaces(lines) == {i \in DOMAIN lines : IsAnnotationLine(lines[i])}

\* C11 as claimed: the output has no more annotation lines than the input
\* has classes with a teleop(...) or autonomous(...) decorator
C11_NoDecoratorNoAnnotation ==
    Translated =>
        Cardinality(AnnotationPlaces(OutputLines))
            <= Cardinality({class \in ClassNodes : IsDecorated(class)})

-----------------------------------------------------------------------------
(* C12: a class decorated with teleop(N, G) yields the line                *)
(* '@TeleOp(name="N", group="G")' directly before its class header, and    *)
(* one decorated with autonomous(N, G) yields '@Autonomous(name="N",       *)
(* group="G")', for all string literals N and G.                           *)

\* the class has the single decorator teleop(N, G) or autonomous(N, G), N and G literals
HasLiteralDecorator(class) ==
    /\ Len(class.decorator_list) = 1
    /\ IsOpModeDecorator(class.decorator_list[1])
    /\ Len(class.decorator_list[1].args) = 2
    /\ IsStringLiteral(class.decorator_list[1].args[1])
    /\ IsStringLiteral(class.decorator_list[1].args[2])

AnnotationOf(decorator) ==
    "@" \o (IF decorator.func.id = "teleop" THEN "TeleOp" ELSE "Autonomous")
        \o "(name=\"" \o decorator.args[1].value.s
        \o "\", group=\"" \o decorator.args[2].value.s \o "\")"

HeaderOf(class) == "public class " \o class.name \o " extends LinearOpMode {"

\* C12 as claimed: the line before the class header is the annotation
C12_AnnotationBeforeHeader ==
    Translated =>
        \A class \in {c \in ClassNodes : HasLiteralDecorator(c)} :
            \E h \in Places(OutputLines, HeaderOf(class)) :
                h > 1 /\ OutputLines[h - 1] = AnnotationOf(class.decorator_list[1])

-----------------------------------------------------------------------------
(* C13: every class is emitted with an '@Override' line and a              *)
(* 'public void runOpMode()' method, also when the class declares no run   *)
(* routine (for example a class whose body is only pass).                  *)

\* C13 as claimed: an output with a class has the two lines
C13_EveryClassHasRunOpMode ==
    Translated /\ ClassNodes # {} =>
        /\ Places(OutputLines, "@Override") # {}
        /\ \E i \in DOMAIN OutputLines : StartsWith(OutputLines[i], "public void runOpMode()")

-----------------------------------------------------------------------------
(* The lines a statement stands for in the output, read off the tree: the  *)
(* reference the emitted text is compared with.                            *)

RECURSIVE TranslationOf(_), TranslationOfBody(_)
TranslationOf(stmt) ==
    CASE stmt.k = "Assign" -> AssignLines(stmt)
      [] stmt.k = "Expr" -> ExprLines(stmt)
      [] stmt.k = "If" ->
            <<"if (" \o visit_expression(stmt.test) \o ") {">>
                \o TranslationOfBody(stmt.body)
                \o (IF stmt.orelse # <<>>
                    THEN <<"} else {">> \o TranslationOfBody(stmt.orelse)
                    ELSE <<>>)
                \o <<"}">>
      [] stmt.k = "While" ->
            <<"while (" \o visit_expression(stmt.test) \o ") {">>
                \o TranslationOfBody(stmt.body) \o <<"}">>
      [] stmt.k = "For" -> TranslationOfBody(stmt.body)
      [] OTHER -> <<>>
TranslationOfBody(body) ==
    IF body = <<>> THEN <<>>
    ELSE TranslationOf(Head(body)) \o TranslationOfBody(Tail(body))

\* block stands in lines, as consecutive lines
Contains(lines, block) ==
    \E i \in 0..(Len(lines) - Len(block)) : SubSeq(lines, i + 1, i + Len(block)) = block

Routines(name) == {n \in InputNodes : n.k = "FunctionDef" /\ n.name = name}

-----------------------------------------------------------------------------
(* C14: a routine named loop is emitted as 'while (opModeIsActive()) {',   *)
(* then its translated body statements in source order, then               *)
(* 'telemetry.update();' as the last statement before the closing brace,   *)
(* whatever the body contains.                                             *)

LoopBlock(routine) ==
    <<"while (opModeIsActive()) {">> \o TranslationOfBody(routine.body)
        \o <<"telemetry.update();", "}">>

\* C14 as claimed: for an input that parses, the block of every loop routine
\* is in the output
C14_LoopWrapped ==
    Done /\ python_code.ok =>
        \A routine \in Routines("loop") : Contains(OutputLines, LoopBlock(routine))

-----------------------------------------------------------------------------
(* C15: the emitted runOpMode body always starts with, in this order,      *)
(* 'initHardware();', 'telemetry.addData("Status", "Initialized");',       *)
(* 'telemetry.update();' and 'waitForStart();', all before the first       *)
(* translated statement of the run routine's body.                         *)

\* the lines that are not blank, in order
RECURSIVE NonBlank(_)
NonBlank(lines) ==
    IF lines = <<>> THEN <<>>
    ELSE (IF Head(lines) = "" THEN <<>> ELSE <<Head(lines)>>) \o NonBlank(Tail(lines))

RunOpModeHeader == "public void runOpMode() {"

StartLines ==
    <<"initHardware();", "telemetry.addData(\"Status\", \"Initialized\");",
      "telemetry.update();", "waitForStart();">>

\* C15: in every returned text, the four lines follow each runOpMode header,
\* and in a translation the statements of each run routine follow them up
\* to the closing brace
C15_RunOpModeStartsWithPrologue ==
    Done =>
        LET lines == NonBlank(OutputLines)
        IN /\ \A h \in Places(lines, RunOpModeHeader) :
                 /\ h > 1 /\ lines[h - 1] = "@Override"
                 /\ h + 4 <= Len(lines)
                 /\ SubSeq(lines, h + 1, h + 4) = StartLines
           /\ Translated =>
                 \A routine \in Routines("run") :
                    Contains(lines, <<RunOpModeHeader>> \o StartLines
                                       \o NonBlank(TranslationOfBody(routine.body))
                                       \o <<"}">>)

\* C15 witness: a run routine with a translated statement, emitted
C15_Witness ==
    /\ Translated
    /\ \E routine \in Routines("run") : TranslationOfBody(routine.body) # <<>>
    /\ Places(OutputLines, RunOpModeHeader) # {}
    /\ Places(OutputLines, "waitForStart();") # {}

-----------------------------------------------------------------------------
(* C16: every routine other than init_hardware, run and loop is emitted as *)
(* 'private void <name>(<params>) {', its parameters all non-receiver      *)
(* parameters in source order, each typed double; and every assignment to  *)
(* a bare local name is emitted as 'double <name> = <value>;'.             *)

\* the parameters after the receiver, each typed double
TypedParameters(args) ==
    [i \in 1..(Len(args) - 1) |-> "double " \o args[i + 1]]

SignatureOf(routine) ==
    "private void " \o routine.name \o "("
        \o Join(", ", TypedParameters(routine.args)) \o ") {"

IsRegularRoutine(node) ==
    node.k = "FunctionDef" /\ node.name \notin {"init_hardware", "run", "loop"}

\* every target of the assignment is a bare name
AssignsBareNames(node) ==
    /\ node.k = "Assign"
    /\ \A i \in DOMAIN node.targets : node.targets[i].k = "Name"

\* C16 as claimed: the signature of every regular routine and the
\* declaration of every bare name assigned are in the output
C16_DoubleParametersAndLocals ==
    Translated =>
        /\ \A routine \in {n \in InputNodes : IsRegularRoutine(n)} :
              Places(OutputLines, SignatureOf(routine)) # {}
        /\ \A node \in {n \in InputNodes : AssignsBareNames(n)} :
              \A i \in DOMAIN node.targets :
                 Places(OutputLines, "double " \o node.targets[i].id \o " = "
                                        \o visit_expression(node.value) \o ";") # {}

-----------------------------------------------------------------------------
(* C17: for all valid inputs, the output contains exactly one top-level    *)
(* class declaration 'public class <Name> extends LinearOpMode {', <Name>  *)
(* the name of the input unit.                                             *)

ClassDeclarationPlaces(lines) ==
    {i \in DOMAIN lines : StartsWith(lines[i], "public class ")}

\* C17 as claimed, for the inputs that hold exactly one class: the output
\* has one class declaration line, the one of that class
C17_ExactlyOneClassDeclaration ==
    Done /\ python_code.ok /\ Cardinality(ClassNodes) = 1 =>
        LET lines == SplitLines(result.s)
        IN /\ Cardinality(ClassDeclarationPlaces(lines)) = 1
           /\ \A class \in ClassNodes : Places(lines, HeaderOf(class)) # {}

-----------------------------------------------------------------------------
(* C18: the translated statements of each routine appear in the output in  *)
(* the same relative order as in the input and routines appear in source   *)
(* order; the only lines not following input order are the registry-       *)
(* derived field declarations and the fixed lines inserted around run and  *)
(* loop.                                                                   *)

\* the lines of a tree in source order: each class, routine and statement
\* where it stands in the input, the fixed lines around the routine bodies
RECURSIVE InSourceOrder(_), InSourceOrderAll(_)
InSourceOrder(node) ==
    CASE node.k = "Module" -> InSourceOrderAll(node.body)
      [] node.k = "ClassDef" -> <<HeaderOf(node)>> \o InSourceOrderAll(node.body) \o <<"}">>
      [] node.k = "FunctionDef" /\ node.name = "init_hardware" ->
            <<"private void initHardware() {">> \o InSourceOrderAll(node.body) \o <<"}">>
      [] node.k = "FunctionDef" /\ node.name = "run" ->
            <<"@Override", RunOpModeHeader>> \o StartLines
                \o InSourceOrderAll(node.body) \o <<"}">>
      [] node.k = "FunctionDef" /\ node.name = "loop" ->
            <<"while (opModeIsActive()) {">> \o InSourceOrderAll(node.body)
                \o <<"telemetry.update();", "}">>
      [] node.k = "FunctionDef" ->
            <<SignatureOf(node)>> \o InSourceOrderAll(node.body) \o <<"}">>
      [] OTHER -> NonBlank(TranslationOf(node))
InSourceOrderAll(nodes) ==
    IF nodes = <<>> THEN <<>>
    ELSE InSourceOrder(Head(nodes)) \o InSourceOrderAll(Tail(nodes))

\* the registry-derived lines: the annotation and the field declarations
IsRegistryLine(line) ==
    \/ IsAnnotationLine(line)
    \/ line = "// Hardware components"
    \/ IsDeclarationLine(line)

IsImportLine(line) == StartsWith(line, "import ")

\* the lines of the output that are neither imports, registry lines nor blank
RECURSIVE TranslatedLines(_)
TranslatedLines(lines) ==
    IF lines = <<>> THEN <<>>
    ELSE (IF Head(lines) = "" \/ IsImportLine(Head(lines)) \/ IsRegistryLine(Head(lines))
          THEN <<>> ELSE <<Head(lines)>>)
         \o TranslatedLines(Tail(lines))

\* C18: apart from the registry-derived lines, the output is the input's
\* classes, routines and statements in source order
C18_SourceOrderKept ==
    Translated => TranslatedLines(OutputLines) = InSourceOrder(python_code.tree)

\* C18 witness: two routines, one of them with two statements that both
\* give lines, after a class that declares hardware
C18_Witness ==
    /\ Translated
    /\ hardware_components # <<>>
    /\ \E routine \in Routines("loop") :
          /\ Len(routine.body) >= 2
          /\ TranslationOf(routine.body[1]) # <<>>
          /\ TranslationOf(routine.body[2]) # <<>>
          /\ TranslationOf(routine.body[1]) # TranslationOf(routine.body[2])
    /\ Routines("run") # {}

-----------------------------------------------------------------------------
(* C19: whenever the fallback block is returned, the whole output is a     *)
(* valid source comment: no character of the error message or of the       *)
(* original input lies outside a '//' line comment or the '/* ... */'      *)
(* block, for every failing input.                                         *)

\* C19 as claimed: two line comments, then one block comment that is closed
\* only by the last two characters of the text
C19_FallbackIsOneComment ==
    FellBack =>
        LET lines == SplitLines(result.s)
        IN /\ Len(lines) >= 4
           /\ StartsWith(lines[1], "//")
           /\ StartsWith(lines[2], "//")
           /\ lines[3] = "/*"
           /\ EndsWith(result.s, "*/")
           /\ Occurrences(result.s, "*/") = 1

-----------------------------------------------------------------------------
(* C20: every output that is not the fallback block begins with the same   *)
(* import block: the fixed import lines in sorted order followed by a      *)
(* blank line, identical for every input and independent of which          *)
(* hardware kinds the input declares.                                      *)

\* the block every translation begins with
ImportBlock ==
    "import com.qualcomm.robotcore.eventloop.opmode.Autonomous;\n"
    \o "import com.qualcomm.robotcore.eventloop.opmode.LinearOpMode;\n"
    \o "import com.qualcomm.robotcore.eventloop.opmode.TeleOp;\n"
    \o "import com.qualcomm.robotcore.hardware.ColorSensor;\n"
    \o "import com.qualcomm.robotcore.hardware.DcMotor;\n"
    \o "import com.qualcomm.robotcore.hardware.DistanceSensor;\n"
    \o "import com.qualcomm.robotcore.hardware.IMU;\n"
    \o "import com.qualcomm.robotcore.hardware.LightSensor;\n"
    \o "import com.qualcomm.robotcore.hardware.Servo;\n"
    \o "import com.qualcomm.robotcore.hardware.TouchSensor;\n"
    \o "import org.firstinspires.ftc.robotcore.external.navigation.AngleUnit;\n"
    \o "import org.firstinspires.ftc.robotcore.external.navigation.DistanceUnit;\n"
    \o "\n"

\* C20: a returned text that is not the fallback block begins with the
\* import block, and no import line follows the block
C20_SameImportBlock ==
    Done /\ ~StartsWith(result.s, "// Transpilation error: ") =>
        /\ StartsWith(result.s, ImportBlock)
        /\ Occurrences(result.s, "import ") = Occurrences(ImportBlock, "import ")

\* C20 witness: a translation of an input that declares a servo and no other kind
C20_Witness ==
    /\ Translated
    /\ hardware_components # <<>>
    /\ \A i \in DOMAIN hardware_components : hardware_components[i].type = "Servo"
    /\ StartsWith(result.s, ImportBlock)

-----------------------------------------------------------------------------
(* C21: for every component name X, the type and config name in each       *)
(* lookup statement 'X = hardwareMap.get(<T>.class, "<cfg>");' equal those *)
(* of the registry record that produced X's field declaration, also when   *)
(* X is declared more than once in init_hardware.                          *)

\* the lookup statement that replays a registry record
LookupOfRecord(record) ==
    record.name \o " = hardwareMap.get(" \o record.type \o ".class, \""
        \o Str(record.config_name) \o "\");"

IsLookupOf(line, x) == StartsWith(line, x \o " = hardwareMap.get(")

\* C21 as claimed: every lookup statement for a registered name is the one
\* of its registry record
C21_LookupMatchesRecord ==
    Translated =>
        \A r \in DOMAIN hardware_components : \A l \in DOMAIN OutputLines :
            IsLookupOf(OutputLines[l], hardware_components[r].name) =>
                OutputLines[l] = LookupOfRecord(hardware_components[r])

-----------------------------------------------------------------------------
(* C22: when init_hardware assigns the same attribute name X more than     *)
(* once with hardware constructors, the registry holds a single record for *)
(* X carrying the type, config name and direction of the last such         *)
(* assignment, and exactly one field declaration for X is emitted, typed   *)
(* per that last assignment.                                               *)

\* the direct hardware statements of the class's init_hardware that assign self.x
AssignmentsOf(class, x) ==
    SelectSeq(DirectHardwareStatements(class.body), LAMBDA stmt : stmt.targets[1].attr = x)

\* the names a class assigns more than once
RedeclaredNames(class) ==
    {x \in {DirectHardwareStatements(class.body)[i].targets[1].attr :
              i \in DOMAIN DirectHardwareStatements(class.body)} :
        Len(AssignmentsOf(class, x)) > 1}

\* the literal argument at a place of a call, or the default
LiteralArgument(call, place, default) ==
    IF Len(call.args) >= place /\ call.args[place].k = "Constant"
    THEN call.args[place].value
    ELSE default

\* the record of the last assignment to self.x
LastRecord(class, x) ==
    LET last == AssignmentsOf(class, x)[Len(AssignmentsOf(class, x))]
    IN [name |-> x,
        type |-> hardware_types[last.value.func.id],
        config_name |-> LiteralArgument(last.value, 1, PyStr(x)),
        direction |-> LiteralArgument(last.value, 2, PyNone)]

DeclarationPlacesOf(lines, x) ==
    {i \in DOMAIN lines :
        /\ IsDeclarationLine(lines[i])
        /\ EndsWith(lines[i], " " \o x \o " = null;")}

-----------------------------------------------------------------------------
(* C23: the annotation of a class is built from the last teleop /          *)
(* autonomous decorator call in its decorator list: the name is that       *)
(* call's first positional literal argument, or the class name when it is  *)
(* absent or not a literal; the group is the second positional literal     *)
(* argument, or 'Linear Opmode' when absent or not a literal.              *)

LastOpModeDecorator(class) ==
    LET matches == SelectSeq(class.decorator_list, IsOpModeDecorator)
    IN matches[Len(matches)]

AnnotationFrom(class) ==
    LET decorator == LastOpModeDecorator(class)
    IN "@" \o (IF decorator.func.id = "teleop" THEN "TeleOp" ELSE "Autonomous")
           \o "(name=\"" \o Str(LiteralArgument(decorator, 1, PyStr(class.name)))
           \o "\", group=\"" \o Str(LiteralArgument(decorator, 2, PyStr("Linear Opmode")))
           \o "\")"

\* C23: in every returned text, the annotation line that precedes the header
\* of a decorated class is the one built from its last decorator call
C23_AnnotationFromLastDecorator ==
    Done =>
        LET lines == OutputLines
        IN \A class \in {c \in ClassNodes : IsDecorated(c)} :
              \A h \in Places(lines, HeaderOf(class)) :
                 \E a \in AnnotationPlaces(lines) :
                    /\ a < h
                    /\ \A b \in AnnotationPlaces(lines) : b < h => b <= a
                    /\ lines[a] = AnnotationFrom(class)

\* C23 witness: a teleop call followed by an autonomous call without a
\* group, and the annotation of the second one in the output
C23_Witness ==
    /\ Translated
    /\ \E class \in ClassNodes :
          /\ Len(SelectSeq(class.decorator_list, IsOpModeDecorator)) = 2
          /\ class.decorator_list[1].func.id = "teleop"
          /\ Places(OutputLines, HeaderOf(class)) # {}
    /\ Places(OutputLines, "@Autonomous(name=\"Second\", group=\"Linear Opmode\")") # {}

-----------------------------------------------------------------------------
(* C24: during any transpilation that completes without a fault, the       *)
(* indentation depth is never negative, each opened block (class, routine, *)
(* if, else, while) raises it by one and its close lowers it by one, and   *)
(* the depth is 0 when the output is assembled.                            *)

BlockEnds ==
    {"ClassDef_end", "init_hardware_end", "run_end", "loop_end", "regular_method_end",
     "If_end", "While_end"}

\* what one step of the visit does to the depth
DepthStep ==
    IF pc # "visit" \/ stack = <<>> \/ pc' # "visit"
    THEN indent_level' = indent_level
    ELSE IF Top.op = "visit"
    THEN indent_level' = indent_level
            + (IF Top.node.k \in {"ClassDef", "FunctionDef", "If", "While"} THEN 1 ELSE 0)
    ELSE IF Top.op \in BlockEnds
    THEN indent_level' = indent_level - 1
    ELSE \* the end of an if body: the close, and the else block if there is one
         indent_level' = indent_level - 1 + (IF Top.node.orelse # <<>> THEN 1 ELSE 0)

\* C24: the depth is never negative, every step opens or closes one block
\* as said, and the depth is 0 when the visit is over and when the text is
\* returned
C24_IndentBalanced ==
    /\ [](indent_level >= 0)
    /\ [](pc = "visit" /\ stack = <<>> => indent_level = 0)
    /\ [](Translated => indent_level = 0)
    /\ [][DepthStep]_vars

\* C24 witness: the visit is four blocks deep (class, routine and two
\* nested statements)
C24_Witness == pc = "visit" /\ indent_level >= 4 /\ exc = PyNone

-----------------------------------------------------------------------------
(* C25: every hardware-lookup statement 'X = hardwareMap.get(...)' in the  *)
(* output refers to a name X for which a field declaration                 *)
(* 'private <Type> X = null;' is also emitted; this covers hardware-       *)
(* constructor assignments placed in a nested block of init_hardware or in *)
(* a routine other than init_hardware.                                     *)

\* the names the input assigns with a hardware constructor, wherever it does
HardwareNames == {n.targets[1].attr : n \in {m \in InputNodes : IsHardwareStatement(m)}}

\* C25 as claimed: a name that has a lookup statement has a declaration
C25_LookupHasDeclaration ==
    Translated =>
        \A x \in HardwareNames :
            (\E l \in DOMAIN OutputLines : IsLookupOf(OutputLines[l], x))
                => DeclarationPlacesOf(OutputLines, x) # {}

-----------------------------------------------------------------------------
(* C26: a method call on a receiver attribute, self.X.set_power(v), is     *)
(* emitted as the statement 'X.setPower(v);' whose receiver text is the    *)
(* bare field name X, as in X's declaration and lookup, with no 'self.'    *)
(* prefix; likewise for the other known operations.                        *)

JavaOperation(method) ==
    CASE method = "set_power" -> "setPower"
      [] method = "set_position" -> "setPosition"
      [] method = "set_target_position" -> "setTargetPosition"

\* a statement self.X.<operation>(v), the operation one that takes a value
IsFieldOperation(node) ==
    /\ node.k = "Expr"
    /\ node.value.k = "Call"
    /\ node.value.func.k = "Attribute"
    /\ node.value.func.attr \in FirstArgMethods
    /\ IsSelfAttribute(node.value.func.value)
    /\ Len(node.value.args) = 1

\* C26 as claimed: the statement is in the output with the bare field name
C26_ReceiverIsBareField ==
    Translated =>
        \A node \in {n \in InputNodes : IsFieldOperation(n)} :
            Places(OutputLines,
                   node.value.func.value.attr \o "." \o JavaOperation(node.value.func.attr)
                       \o "(" \o visit_expression(node.value.args[1]) \o ");") # {}

-----------------------------------------------------------------------------
(* C27: every executable statement line of the output, including the       *)
(* 'while (opModeIsActive()) {' block generated from a routine named loop, *)
(* lies inside the braces of an emitted routine (runOpMode, initHardware   *)
(* or a 'private void' routine) and never directly at class-member level.  *)

\* the blocks the lines open, less the blocks they close
RECURSIVE BraceDepth(_)
BraceDepth(lines) ==
    IF lines = <<>> THEN 0
    ELSE CountChar(Head(lines), "{") - CountChar(Head(lines), "}") + BraceDepth(Tail(lines))

\* the number of blocks open where a line stands
DepthAt(lines, place) == BraceDepth(SubSeq(lines, 1, place - 1))

\* the routine is a direct member of a class
IsMember(routine) ==
    \E class \in ClassNodes : \E i \in DOMAIN class.body : class.body[i] = routine

\* C27 as claimed, for the block of a loop routine that is a member of a
\* class, in inputs without a brace of their own: the block stands inside
\* the class and inside a routine, two blocks deep at least
C27_LoopBlockInsideRoutine ==
    (/\ Translated
     /\ BraceFreeInput
     /\ \A routine \in Routines("loop") : IsMember(routine))
    => \A place \in Places(OutputLines, "while (opModeIsActive()) {") :
          DepthAt(OutputLines, place) >= 2

-----------------------------------------------------------------------------
(* C28: when the input defines several classes, the field declarations     *)
(* emitted for each class are exactly the components declared in that      *)
(* class's own init_hardware, each declared once: no hardware record of an *)
(* earlier class appears in a later class.                                 *)

\* the classes of the input, in source order
TopLevelClasses == SelectSeq(python_code.tree.body, LAMBDA n : n.k = "ClassDef")

OwnHardwareNames(class) ==
    {DirectHardwareStatements(class.body)[i].targets[1].attr :
        i \in DOMAIN DirectHardwareStatements(class.body)}

\* the lines of the output from the header of the class on
LinesFrom(lines, class) ==
    LET headers == Places(lines, HeaderOf(class))
    IN IF headers = {} THEN <<>>
       ELSE SubSeq(lines, CHOOSE i \in headers : \A j \in headers : i <= j, Len(lines))

\* C28 as claimed, for the translated inputs of several classes: a name is
\* declared once for every class that declares it, and after the header of
\* the last class only the names of that class are declared
C28_OwnDeclarationsOnly ==
    Translated /\ Len(TopLevelClasses) >= 2 =>
        /\ \A x \in HardwareNames :
              Cardinality(DeclarationPlacesOf(OutputLines, x))
                  = Cardinality({i \in DOMAIN TopLevelClasses :
                                    x \in OwnHardwareNames(TopLevelClasses[i])})
        /\ LET last == TopLevelClasses[Len(TopLevelClasses)]
           IN \A x \in HardwareNames \ OwnHardwareNames(last) :
                 DeclarationPlacesOf(LinesFrom(OutputLines, last), x) = {}


-----------------------------------------------------------------------------
(* C29: whenever the output contains the call 'initHardware();' in         *)
(* runOpMode, the output also defines the routine                          *)
(* 'private void initHardware() {': the call is never emitted for a class  *)
(* that declares no init_hardware routine.                                 *)

\* C29 as claimed, for the translated outputs: a call of initHardware has a
\* definition of initHardware in the same output
C29_InitHardwareDefined ==
    Translated /\ Places(OutputLines, "initHardware();") # {} =>
        Places(OutputLines, "private void initHardware() {") # {}

-----------------------------------------------------------------------------
(* C30: every target type that the hardware-kind table can place in a      *)
(* field declaration (DcMotor, Servo, ColorSensor, DistanceSensor,         *)
(* GyroSensor, TouchSensor, LightSensor, IMU) has a matching import line   *)
(* in the fixed import block.                                              *)

DeclaredTypes(lines) ==
    {hardware_types[kind] : kind \in
        {k \in DOMAIN hardware_types :
            \E x \in HardwareNames : Places(lines, DeclarationOf(hardware_types[k], x)) # {}}}

IsImportOf(line, type) ==
    StartsWith(line, "import ") /\ EndsWith(line, "." \o type \o ";")

\* C30 as claimed, for the translated outputs: the type of every field
\* declaration of the output is imported by a line of the same output
C30_DeclaredTypeImported ==
    Translated =>
        \A type \in DeclaredTypes(OutputLines) :
            \E i \in DOMAIN OutputLines : IsImportOf(OutputLines[i], type)

====
